---- MODULE Spec2Model ----
(***************************************************************************)
(* A model of testcoin's blockchain.py: the Blockchain class (chain, pool  *)
(* of pending transactions, peer set), its hashing and proof-of-work       *)
(* helpers, the chain validator and the consensus resolver.                *)
(*                                                                         *)
(* Python values that the code compares across types (an int sentinel      *)
(* against a hex digest, None against either) are tagged records           *)
(* [t, v], so that the model compares them the way Python does.            *)
(* A call's outcome is a record with field exc: "none" when the call       *)
(* returned, otherwise the name of the exception it raised.                *)
(***************************************************************************)
EXTENDS Integers, Sequences, FiniteSets, TLC

VARIABLES chain, current_transactions, nodes, result

\* what the callers of new_transaction were told: promised[i] is the value
\* returned for current_transactions[i]; adopted records that
\* resolve_conflicts has replaced the chain at least once
VARIABLES promised, adopted

\* requests served by concurrent threads: threads[t] is the position and
\* the local variables of thread t inside the call it is serving.  Python
\* lists are objects: lists[k] is the content of list object k, pool_list is
\* the object self.current_transactions refers to, and block_lists[i] is the
\* object chain[i]['transactions'] refers to (0: an object nothing else
\* refers to).  submitted holds the transactions appended so far.
VARIABLES threads, lists, pool_list, block_lists, submitted

\* a second node, which is the peer of this one and has this one as its
\* peer: peer_chain is its chain, and resolved lists the resolve_conflicts
\* calls the two nodes have made
VARIABLES peer_chain, resolved

ledger == <<chain, current_transactions, nodes, result>>
told == <<promised, adopted>>
heap == <<lists, pool_list, block_lists, submitted>>
pair == <<peer_chain, resolved>>
vars == <<ledger, told, threads, heap, pair>>

----------------------------------------------------------------------------
(* Bounds of the model *)

\* NewBlock is not called once the local chain holds this many blocks
MaxChain == 2
\* NewTransaction is not called once the pool holds this many transactions
MaxPool == 2
\* time() returns a value in 0..MaxTime
MaxTime == 0
\* a peer sends a chain of at most this many blocks
MaxPeerLen == 2
\* a chain that is tampered with holds at most this many blocks
MaxTamperLen == 3
\* the number of threads that serve requests at the same time
MaxThreads == 2
\* concurrent new_block calls are not started once this many list objects
\* exist (each call creates one)
MaxLists == 3
\* concurrent new_transaction calls are not started once this many
\* transactions were submitted
MaxSubmitted == 1
\* beside concurrent requests no peer is registered once the peer set
\* holds this many
MaxThreadPeers == 1

----------------------------------------------------------------------------
(* Python values *)

None == [t |-> "None", v |-> 0]
PyInt(n) == [t |-> "int", v |-> n]
\* a hex digest, identified with the bytes that were digested
PyDigest(data) == [t |-> "sha256", v |-> data]

\* bool(x) for None, an int or a non-empty string
Truthy(x) == x.t = "sha256" \/ (x.t = "int" /\ x.v # 0)

\* x == y in Python: values of different types are unequal
PyEq(x, y) == x.t = y.t /\ x.v = y.v

Ok(v) == [exc |-> "none", ret |-> v]
Raise(e) == [exc |-> e, ret |-> FALSE]

Last(s) == s[Len(s)]

----------------------------------------------------------------------------
(* Inputs *)

Timestamps == 0..MaxTime
\* the proof handed to new_block; 100 is the genesis proof
Proofs == {0, 100}
\* the previous_hash handed to new_block: omitted, falsy, or the sentinel
PreviousHashArgs == {None, PyInt(0), PyInt(1)}
Transactions ==
  { [sender |-> "A", recipient |-> "B", amount |-> a] : a \in {1, 5} }
Addresses == {"http://n1:5000", "http://n1:5000/chain", "http://n2:5000"}

----------------------------------------------------------------------------
(* Blockchain.hash: json.dumps(block, sort_keys=True).encode() digested by  *)
(* sha256.  A record is its own canonical (key-sorted) serialization, and   *)
(* the digest is taken to be collision free.                                *)

\* hashlib.sha256(data): only bytes can be digested
sha256(data) ==
  IF data.t = "bytes" THEN Ok(PyDigest(data.v)) ELSE Raise("TypeError")

hash(block) == sha256([t |-> "bytes", v |-> block]).ret

\* whether a digest's hexdigest()[:4] is "0000"; for the digest of the
\* digits of a pair of proofs the stand-in is an arithmetic test
LeadingZeros(digest) == (digest.v[1] * 3 + digest.v[2]) % 4 = 0

\* Blockchain.valid_proof: the guess is an f-string (a str, never encoded)
valid_proof(last_proof, proof) ==
  LET guess == [t |-> "str", v |-> <<last_proof, proof>>]
      guess_hash == sha256(guess)
  IN  IF guess_hash.exc # "none" THEN Raise(guess_hash.exc)
      ELSE Ok(LeadingZeros(guess_hash.ret))

----------------------------------------------------------------------------
(* Ledger operations *)

\* urlparse(address).netloc
Netloc(address) ==
  CASE address = "http://n1:5000" -> "n1:5000"
    [] address = "http://n1:5000/chain" -> "n1:5000"
    [] address = "http://n2:5000" -> "n2:5000"
    [] OTHER -> ""

register_node(ns, address) == ns \cup {Netloc(address)}

\* new_block without the reset of current_transactions
new_block_keeps_pool(ch, pool, proof, previous_hash, now) ==
  LET block == [index |-> Len(ch) + 1,
                timestamp |-> now,
                transactions |-> pool,
                proof |-> proof,
                previous_hash |-> IF Truthy(previous_hash) \/ ch = <<>>
                                  THEN previous_hash
                                  ELSE hash(Last(ch))]
  IN [exc |-> "none", chain |-> Append(ch, block), pool |-> pool,
      ret |-> block]

\* Blockchain.new_block on chain ch and pool; now is what time() returns
new_block(ch, pool, proof, previous_hash, now) ==
  IF ~Truthy(previous_hash) /\ ch = <<>>
  THEN [exc |-> "IndexError", chain |-> ch, pool |-> pool, ret |-> None]
  ELSE LET block == [index |-> Len(ch) + 1,
                     timestamp |-> now,
                     transactions |-> pool,
                     proof |-> proof,
                     previous_hash |-> IF Truthy(previous_hash)
                                       THEN previous_hash
                                       ELSE hash(Last(ch))]
       IN [exc |-> "none", chain |-> Append(ch, block), pool |-> <<>>,
           ret |-> block]

\* Blockchain.new_transaction: the append happens before last_block is read
new_transaction(ch, pool, sender, recipient, amount) ==
  LET appended == Append(pool, [sender |-> sender, recipient |-> recipient,
                                amount |-> amount])
  IN  IF ch = <<>>
      THEN [exc |-> "IndexError", pool |-> appended, ret |-> 0]
      ELSE IF "index" \notin DOMAIN Last(ch)
      THEN [exc |-> "KeyError", pool |-> appended, ret |-> 0]
      ELSE [exc |-> "none", pool |-> appended, ret |-> Last(ch).index + 1]

\* Blockchain.last_block: chain[-1]
last_block(ch) == IF ch = <<>> THEN Raise("IndexError") ELSE Ok(Last(ch))

----------------------------------------------------------------------------
(* Proof of work *)

\* Blockchain.proof_of_work: the while loop, entered with proof = 0
RECURSIVE proof_of_work_from(_, _)
proof_of_work_from(last_proof, proof) ==
  LET v == valid_proof(last_proof, proof)
  IN  IF v.exc # "none" THEN [exc |-> v.exc, ret |-> 0]
      ELSE IF v.ret = FALSE THEN proof_of_work_from(last_proof, proof + 1)
      ELSE [exc |-> "none", ret |-> proof]

proof_of_work(last_proof) == proof_of_work_from(last_proof, 0)

----------------------------------------------------------------------------
(* Chain validator *)

\* the body of valid_chain's while loop at current_index, last_block being
\* ch[current_index - 1]
RECURSIVE valid_chain_from(_, _)
valid_chain_from(ch, current_index) ==
  IF ~(current_index < Len(ch)) THEN Ok(TRUE)
  ELSE LET prev == ch[current_index]
           block == ch[current_index + 1]
       IN  IF "previous_hash" \notin DOMAIN block THEN Raise("KeyError")
           ELSE IF ~PyEq(block.previous_hash, hash(prev)) THEN Ok(FALSE)
           ELSE IF "proof" \notin DOMAIN prev THEN Raise("KeyError")
           ELSE IF "proof" \notin DOMAIN block THEN Raise("KeyError")
           ELSE LET v == valid_proof(prev.proof, block.proof)
                IN  IF v.exc # "none" THEN Raise(v.exc)
                    ELSE IF ~v.ret THEN Ok(FALSE)
                    ELSE valid_chain_from(ch, current_index + 1)

\* Blockchain.valid_chain: chain[0] is read before the loop
valid_chain(ch) ==
  IF ch = <<>> THEN Raise("IndexError") ELSE valid_chain_from(ch, 1)

----------------------------------------------------------------------------
(* Peers and their answers to GET /chain *)

\* a first block as a node creates it, and one from a network with another
\* genesis convention
PeerGenesis ==
  [index |-> 1, timestamp |-> 0, transactions |-> <<>>, proof |-> 100,
   previous_hash |-> PyInt(1)]
PeerForeign ==
  [index |-> 7, timestamp |-> 0, transactions |-> <<>>, proof |-> 100,
   previous_hash |-> PyInt(0)]

\* the blocks a peer may put after chain c: correctly linked, linked to
\* something else, and records lacking a field
PeerLinked(c) ==
  [index |-> Len(c) + 1, timestamp |-> 0, transactions |-> <<>>, proof |-> 0,
   previous_hash |-> hash(Last(c))]
PeerUnlinked(c) ==
  [index |-> Len(c) + 1, timestamp |-> 0, transactions |-> <<>>, proof |-> 0,
   previous_hash |-> PyInt(1)]
PeerNoPreviousHash(c) ==
  [index |-> Len(c) + 1, timestamp |-> 0, transactions |-> <<>>, proof |-> 0]
PeerNoProof(c) ==
  [index |-> Len(c) + 1, timestamp |-> 0, transactions |-> <<>>,
   previous_hash |-> hash(Last(c))]

\* the well-linked chains of n blocks that start with the genesis block
RECURSIVE PeerLinkedChain(_)
PeerLinkedChain(n) ==
  IF n <= 1 THEN <<PeerGenesis>>
  ELSE LET c == PeerLinkedChain(n - 1) IN Append(c, PeerLinked(c))

PeerChains ==
  {<<>>, <<PeerGenesis>>, <<PeerForeign>>}
  \cup UNION { LET c == PeerLinkedChain(n - 1)
               IN { Append(c, PeerLinked(c)), Append(c, PeerUnlinked(c)),
                    Append(c, PeerNoPreviousHash(c)), Append(c, PeerNoProof(c)) }
               : n \in 2..MaxPeerLen }

\* the chain a node builds with n - 1 calls of new_block after the genesis
\* block, each sealing one transaction
RECURSIVE BuiltChain(_)
BuiltChain(n) ==
  IF n <= 1 THEN new_block(<<>>, <<>>, 100, PyInt(1), 0).chain
  ELSE new_block(BuiltChain(n - 1),
                 <<[sender |-> "A", recipient |-> "B", amount |-> 1]>>,
                 0, None, 0).chain

\* chain c with the content of block k changed and nothing else recomputed:
\* the amount of its first transaction, or its timestamp if it holds none
Tampered(c, k) ==
  IF c[k].transactions = <<>>
  THEN [c EXCEPT ![k].timestamp = @ + 1]
  ELSE [c EXCEPT ![k].transactions[1].amount = @ + 1]

TamperedChains ==
  UNION { { Tampered(BuiltChain(n), k) : k \in 1..(n - 1) }
          : n \in 3..MaxTamperLen }

\* a peer's answer to GET /chain as requests.get and response.json() give
\* it: the call raises, or there is a status code and a body that is JSON
\* with 'length' and 'chain', or is not
NoAnswer ==
  [raises |-> TRUE, status_code |-> 0, json_ok |-> FALSE, length |-> 0,
   chain |-> <<>>]
Unavailable ==
  [raises |-> FALSE, status_code |-> 503, json_ok |-> FALSE, length |-> 0,
   chain |-> <<>>]
BadBody ==
  [raises |-> FALSE, status_code |-> 200, json_ok |-> FALSE, length |-> 0,
   chain |-> <<>>]
Answer(c, n) ==
  [raises |-> FALSE, status_code |-> 200, json_ok |-> TRUE, length |-> n,
   chain |-> c]

\* the length a peer reports need not be the length of the chain it sends
Responses ==
  { NoAnswer, Unavailable, BadBody,
    Answer(<<>>, MaxChain + 1),
    Answer(<<PeerGenesis>>, 1),
    Answer(<<PeerGenesis>>, MaxChain + 1),
    Answer(<<PeerForeign>>, MaxChain + 1),
    Answer(<<PeerForeign>>, MaxChain + 2),
    Answer(Append(<<PeerGenesis>>, PeerUnlinked(<<PeerGenesis>>)), MaxChain + 1),
    Answer(PeerLinkedChain(2), MaxChain + 1) }

----------------------------------------------------------------------------
(* Consensus resolver *)

NoChain == [some |-> FALSE, chain |-> <<>>]

\* the for loop of resolve_conflicts; fetched holds, in the order in which
\* the loop visits the peers, what requests.get gives for each
RECURSIVE resolve_loop(_, _, _)
resolve_loop(fetched, max_length, new_chain) ==
  IF fetched = <<>>
  THEN [exc |-> "none", max_length |-> max_length, new_chain |-> new_chain]
  ELSE LET r == Head(fetched)
           raised(e) == [exc |-> e, max_length |-> max_length,
                         new_chain |-> new_chain]
       IN  IF r.raises THEN raised("ConnectionError")
           ELSE IF r.status_code # 200
           THEN resolve_loop(Tail(fetched), max_length, new_chain)
           ELSE IF ~r.json_ok THEN raised("ValueError")
           ELSE IF ~(r.length > max_length)
           THEN resolve_loop(Tail(fetched), max_length, new_chain)
           ELSE LET v == valid_chain(r.chain)
                IN  IF v.exc # "none" THEN raised(v.exc)
                    ELSE IF v.ret
                    THEN resolve_loop(Tail(fetched), r.length,
                                      [some |-> TRUE, chain |-> r.chain])
                    ELSE resolve_loop(Tail(fetched), max_length, new_chain)

\* resolve_conflicts taking the chain of greatest reported length as it
\* comes: no valid_chain, and new_chain tested against None only
RECURSIVE longest_reported(_, _, _)
longest_reported(fetched, max_length, new_chain) ==
  IF fetched = <<>> THEN [exc |-> "none", new_chain |-> new_chain]
  ELSE LET r == Head(fetched)
       IN  IF r.raises THEN [exc |-> "ConnectionError", new_chain |-> new_chain]
           ELSE IF r.status_code # 200
           THEN longest_reported(Tail(fetched), max_length, new_chain)
           ELSE IF ~r.json_ok THEN [exc |-> "ValueError", new_chain |-> new_chain]
           ELSE IF r.length > max_length
           THEN longest_reported(Tail(fetched), r.length,
                                 [some |-> TRUE, chain |-> r.chain])
           ELSE longest_reported(Tail(fetched), max_length, new_chain)

resolve_conflicts_unvalidated(ch, fetched) ==
  LET l == longest_reported(fetched, Len(ch), [some |-> FALSE, chain |-> <<>>])
  IN  IF l.exc # "none" THEN [exc |-> l.exc, chain |-> ch, ret |-> FALSE]
      ELSE IF l.new_chain.some
      THEN [exc |-> "none", chain |-> l.new_chain.chain, ret |-> TRUE]
      ELSE [exc |-> "none", chain |-> ch, ret |-> FALSE]

\* Blockchain.resolve_conflicts on local chain ch: new_chain is adopted when
\* it is truthy (neither None nor an empty list)
resolve_conflicts(ch, fetched) ==
  LET l == resolve_loop(fetched, Len(ch), NoChain)
  IN  IF l.exc # "none" THEN [exc |-> l.exc, chain |-> ch, ret |-> FALSE]
      ELSE IF l.new_chain.some /\ l.new_chain.chain # <<>>
      THEN [exc |-> "none", chain |-> l.new_chain.chain, ret |-> TRUE]
      ELSE [exc |-> "none", chain |-> ch, ret |-> FALSE]

----------------------------------------------------------------------------
(* State machine *)

NoTx == [sender |-> "", recipient |-> "", amount |-> 0]

\* a thread that serves no request, and the local variables of one that does
Idle ==
  [pc |-> "idle", op |-> "none", tx |-> NoTx, list |-> 0, proof |-> 0,
   previous_hash |-> None, index |-> 0, timestamp |-> 0, n |-> 0]

\* Blockchain.__init__: empty chain, pool and peer set, then the genesis block
Init ==
  /\ \E now \in Timestamps :
       chain = new_block(<<>>, <<>>, 100, PyInt(1), now).chain
  /\ current_transactions = <<>>
  /\ nodes = {}
  /\ result = [op |-> "init", exc |-> "none"]
  /\ promised = <<>>
  /\ adopted = FALSE
  /\ threads = [t \in 1..MaxThreads |-> Idle]
  /\ lists = << <<>> >>
  /\ pool_list = 1
  /\ block_lists = <<0>>
  /\ submitted = {}
  /\ peer_chain = <<>>
  /\ resolved = <<>>

RegisterNode ==
  \E address \in Addresses :
    /\ nodes' = register_node(nodes, address)
    /\ result' = [op |-> "register_node", exc |-> "none"]
    /\ UNCHANGED <<chain, current_transactions>>

NewTransaction ==
  \E tx \in Transactions :
    /\ Len(current_transactions) < MaxPool
    /\ LET r == new_transaction(chain, current_transactions,
                                tx.sender, tx.recipient, tx.amount)
       IN /\ current_transactions' = r.pool
          /\ result' = [op |-> "new_transaction", exc |-> r.exc,
                        ret |-> r.ret]
    /\ UNCHANGED <<chain, nodes>>

NewBlock ==
  \E proof \in Proofs, previous_hash \in PreviousHashArgs, now \in Timestamps :
    /\ Len(chain) < MaxChain
    /\ LET r == new_block(chain, current_transactions, proof, previous_hash, now)
       IN /\ chain' = r.chain
          /\ current_transactions' = r.pool
          /\ result' = [op |-> "new_block", exc |-> r.exc, ret |-> r.ret,
                        arg |-> previous_hash]
    /\ UNCHANGED nodes

\* a call of valid_chain on a chain received from elsewhere
ValidChain ==
  \E candidate \in PeerChains \cup TamperedChains \cup {chain} :
    /\ LET v == valid_chain(candidate)
       IN result' = [op |-> "valid_chain", exc |-> v.exc, ret |-> v.ret,
                     arg |-> candidate]
    /\ UNCHANGED <<chain, current_transactions, nodes>>

\* a call of proof_of_work
ProofOfWork ==
  \E last_proof \in Proofs :
    /\ LET p == proof_of_work(last_proof)
       IN result' = [op |-> "proof_of_work", exc |-> p.exc, ret |-> p.ret,
                     arg |-> last_proof]
    /\ UNCHANGED <<chain, current_transactions, nodes>>

\* the peers are visited in the set's iteration order, which is arbitrary:
\* fetched[i] is the answer of the i-th peer visited
ResolveConflicts ==
  \E fetched \in [1..Cardinality(nodes) -> Responses] :
    /\ nodes # {}
    /\ LET r == resolve_conflicts(chain, fetched)
       IN /\ chain' = r.chain
          /\ result' = [op |-> "resolve_conflicts", exc |-> r.exc,
                        ret |-> r.ret, arg |-> fetched]
    /\ UNCHANGED <<current_transactions, nodes>>

NextLedger ==
  \/ NewTransaction /\ UNCHANGED <<told, threads, heap, pair>>
  \/ NewBlock /\ UNCHANGED <<told, threads, heap, pair>>

SpecLedger == Init /\ [][NextLedger]_vars

Next ==
  \/ RegisterNode /\ UNCHANGED <<told, threads, heap, pair>>
  \/ NewTransaction /\ UNCHANGED <<told, threads, heap, pair>>
  \/ NewBlock /\ UNCHANGED <<told, threads, heap, pair>>
  \/ ValidChain /\ UNCHANGED <<told, threads, heap, pair>>
  \/ ProofOfWork /\ UNCHANGED <<told, threads, heap, pair>>
  \/ ResolveConflicts /\ UNCHANGED <<told, threads, heap, pair>>

Spec == Init /\ [][Next]_vars

\* the ledger's calls with a record of what new_transaction returned for
\* each pending transaction
ToldNewTransaction ==
  /\ NewTransaction
  /\ promised' = Append(promised, result'.ret)
  /\ UNCHANGED <<adopted, threads, heap, pair>>

ToldNewBlock ==
  /\ NewBlock
  /\ promised' = <<>>
  /\ UNCHANGED <<adopted, threads, heap, pair>>

ToldResolveConflicts ==
  /\ ResolveConflicts
  /\ adopted' = (adopted \/ result'.ret)
  /\ UNCHANGED <<promised, threads, heap, pair>>

NextTold ==
  \/ RegisterNode /\ UNCHANGED <<told, threads, heap, pair>>
  \/ ToldNewTransaction
  \/ ToldNewBlock
  \/ ToldResolveConflicts

SpecTold == Init /\ [][NextTold]_vars

----------------------------------------------------------------------------
(* The node: the Flask handlers around one Blockchain object.  A handler's  *)
(* outcome is the status of the response; an exception that leaves the      *)
(* handler is answered by Flask with status 500.                            *)

\* str(uuid4()) without the dashes
node_identifier == "node"

\* request.get_json(): the body null, or an object given as the record of
\* its members
JsonNull == [t |-> "null", v |-> <<>>]
JsonObject(members) == [t |-> "dict", v |-> members]

\* the bodies posted to /transactions/new: complete ones, and ones lacking
\* each of the required members or all of them
TransactionBodies ==
  {JsonNull, JsonObject(<<>>)}
  \cup { JsonObject(tx) : tx \in Transactions }
  \cup { JsonObject([recipient |-> "B", amount |-> 1]),
         JsonObject([sender |-> "A", amount |-> 1]),
         JsonObject([sender |-> "A", recipient |-> "B"]) }

\* the value of 'nodes' in a body posted to /nodes/register: a list of
\* addresses, a string (given as its characters) or a number
JsonList(items) == [t |-> "list", v |-> items]
JsonString(chars) == [t |-> "str", v |-> chars]
JsonNumber(n) == [t |-> "int", v |-> n]

RegisterBodies ==
  {JsonNull, JsonObject(<<>>)}
  \cup { JsonObject([nodes |-> JsonList(<<a>>)]) : a \in Addresses }
  \cup { JsonObject([nodes |-> JsonList(<<>>)]),
         JsonObject([nodes |-> JsonList(<<"http://n1:5000", "http://n2:5000">>)]),
         JsonObject([nodes |-> JsonString(<<"n", "1">>)]),
         JsonObject([nodes |-> JsonNumber(5)]) }

\* the handler mine: nothing is written before proof_of_work has returned
mine(ch, pool, now) ==
  LET unchanged(e) == [status |-> 500, exc |-> e, chain |-> ch, pool |-> pool]
      last == last_block(ch)
  IN  IF last.exc # "none" THEN unchanged(last.exc)
      ELSE IF "proof" \notin DOMAIN last.ret THEN unchanged("KeyError")
      ELSE LET p == proof_of_work(last.ret.proof)
           IN  IF p.exc # "none" THEN unchanged(p.exc)
               ELSE LET t == new_transaction(ch, pool, "0", node_identifier, 1)
                        b == new_block(ch, t.pool, p.ret, None, now)
                    IN  IF t.exc # "none"
                        THEN [status |-> 500, exc |-> t.exc, chain |-> ch,
                              pool |-> t.pool]
                        ELSE [status |-> IF b.exc = "none" THEN 200 ELSE 500,
                              exc |-> b.exc, chain |-> b.chain, pool |-> b.pool]

\* the handler new_transaction of /transactions/new
post_transaction(ch, pool, values) ==
  IF values.t = "null"
     \/ ~(\A k \in {"sender", "recipient", "amount"} : k \in DOMAIN values.v)
  THEN [status |-> 400, exc |-> "none", pool |-> pool]
  ELSE LET t == new_transaction(ch, pool, values.v.sender, values.v.recipient,
                                values.v.amount)
       IN  [status |-> IF t.exc = "none" THEN 201 ELSE 500, exc |-> t.exc,
            pool |-> t.pool]

\* the for loop of register_nodes over the items that iterating 'nodes' gives
RECURSIVE register_each(_, _)
register_each(ns, items) ==
  IF items = <<>> THEN ns
  ELSE register_each(register_node(ns, Head(items)), Tail(items))

\* the handler register_nodes: iterating a list gives its items, iterating
\* a string gives its characters, a number cannot be iterated
register_nodes(ns, values) ==
  IF values.t = "null"
  THEN [status |-> 500, exc |-> "AttributeError", nodes |-> ns]
  ELSE LET given == IF "nodes" \in DOMAIN values.v THEN values.v.nodes ELSE None
       IN  IF given.t = "None"
           THEN [status |-> 400, exc |-> "none", nodes |-> ns]
           ELSE IF given.t = "int"
           THEN [status |-> 500, exc |-> "TypeError", nodes |-> ns]
           ELSE [status |-> 201, exc |-> "none",
                 nodes |-> register_each(ns, given.v)]

\* the handler full_chain
full_chain(ch) == [status |-> 200, chain |-> ch, length |-> Len(ch)]

\* the handler consensus
consensus(ch, fetched) ==
  LET r == resolve_conflicts(ch, fetched)
  IN  [status |-> IF r.exc = "none" THEN 200 ELSE 500, exc |-> r.exc,
       chain |-> r.chain, replaced |-> r.ret]

GetMine ==
  \E now \in Timestamps :
    /\ LET m == mine(chain, current_transactions, now)
       IN /\ chain' = m.chain
          /\ current_transactions' = m.pool
          /\ result' = [op |-> "GET /mine", status |-> m.status,
                        exc |-> m.exc]
    /\ UNCHANGED <<nodes, told, threads, heap, pair>>

PostTransactionsNew ==
  \E values \in TransactionBodies :
    /\ Len(current_transactions) < MaxPool
    /\ LET t == post_transaction(chain, current_transactions, values)
       IN /\ current_transactions' = t.pool
          /\ result' = [op |-> "POST /transactions/new", status |-> t.status,
                        exc |-> t.exc, arg |-> values]
    /\ UNCHANGED <<chain, nodes, told, threads, heap, pair>>

GetChain ==
  /\ result' = [op |-> "GET /chain", status |-> full_chain(chain).status,
                exc |-> "none", ret |-> full_chain(chain).chain]
  /\ UNCHANGED <<chain, current_transactions, nodes, told, threads, heap, pair>>

PostNodesRegister ==
  \E values \in RegisterBodies :
    /\ LET r == register_nodes(nodes, values)
       IN /\ nodes' = r.nodes
          /\ result' = [op |-> "POST /nodes/register", status |-> r.status,
                        exc |-> r.exc, arg |-> values]
    /\ UNCHANGED <<chain, current_transactions, told, threads, heap, pair>>

\* requests.get raises on the address 'http:///chain' that the peer ''
\* gives, as it may on any address
GetNodesResolve ==
  \E fetched \in [1..Cardinality(nodes) -> Responses] :
    /\ nodes # {}
    /\ "" \in nodes => \E i \in DOMAIN fetched : fetched[i] = NoAnswer
    /\ LET c == consensus(chain, fetched)
       IN /\ chain' = c.chain
          /\ result' = [op |-> "GET /nodes/resolve", status |-> c.status,
                        exc |-> c.exc, ret |-> c.replaced]
          /\ adopted' = (adopted \/ c.replaced)
    /\ UNCHANGED <<current_transactions, nodes, promised, threads, heap, pair>>

NextNode ==
  \/ GetMine
  \/ PostTransactionsNew
  \/ GetChain
  \/ PostNodesRegister
  \/ GetNodesResolve

SpecNode == Init /\ [][NextNode]_vars

----------------------------------------------------------------------------
(* Concurrent requests.  The code takes no lock, so a thread may be         *)
(* suspended between any two accesses to the Blockchain object: each step   *)
(* below is one access to self.chain, self.current_transactions or          *)
(* self.nodes together with the local computation that follows it.          *)

Goto(t, locals) == threads' = [threads EXCEPT ![t] = locals]

\* the chain as it reads when the list objects hold ls
ChainView(ch, bl, ls) ==
  [i \in DOMAIN ch |->
     IF bl[i] # 0 THEN [ch[i] EXCEPT !.transactions = ls[bl[i]]] ELSE ch[i]]

\* the proof handed to a new_block that is called beside other requests;
\* like mine, such a call passes no previous_hash
ThreadProofs == {0}

\* the new_block calls that have not created their list object yet
StartedBlocks ==
  {t \in DOMAIN threads :
     threads[t].pc \in {"nb_transactions", "nb_hash", "nb_reset"}}

\* new_transaction, line 55: self.current_transactions is evaluated; a
\* transaction is submitted once
TxLoad(t) ==
  /\ threads[t].pc \in {"idle", "tx_load"}
  /\ \E tx \in IF threads[t].pc = "tx_load" THEN {threads[t].tx}
                ELSE {x \in Transactions :
                        /\ x \notin submitted
                        /\ \A u \in DOMAIN threads : threads[u].tx = NoTx
                        /\ Cardinality(submitted) < MaxSubmitted} :
       Goto(t, [threads[t] EXCEPT
                  !.pc = "tx_append",
                  !.op = IF @ = "none" THEN "new_transaction" ELSE @,
                  !.tx = tx,
                  !.list = pool_list])
  /\ UNCHANGED <<ledger, told, heap>>

\* new_transaction, lines 55-59: append to the list object that was loaded
TxAppend(t) ==
  /\ threads[t].pc = "tx_append"
  /\ lists' = [lists EXCEPT ![threads[t].list] = Append(@, threads[t].tx)]
  /\ current_transactions' = lists'[pool_list]
  /\ chain' = ChainView(chain, block_lists, lists')
  /\ submitted' = submitted \cup {threads[t].tx}
  /\ Goto(t, [threads[t] EXCEPT !.pc = "tx_return"])
  /\ UNCHANGED <<nodes, result, told, pool_list, block_lists>>

\* new_transaction, line 62: last_block is read; the handler mine goes on
\* to new_block
TxReturn(t) ==
  /\ threads[t].pc = "tx_return"
  /\ LET exc == IF chain = <<>> THEN "IndexError"
                ELSE IF "index" \notin DOMAIN Last(chain) THEN "KeyError"
                ELSE "none"
     IN  IF threads[t].op = "mine" /\ exc = "none"
         THEN /\ Goto(t, [threads[t] EXCEPT !.pc = "nb_index"])
              /\ UNCHANGED result
         ELSE /\ Goto(t, Idle)
              /\ result' = [op |-> threads[t].op, exc |-> exc]
  /\ UNCHANGED <<chain, current_transactions, nodes, told, heap>>

\* new_block, lines 36-37: len(self.chain) and time()
NbIndex(t) ==
  /\ threads[t].pc \in {"idle", "nb_index"}
  /\ Len(lists) + Cardinality(StartedBlocks) < MaxLists
  /\ \E proof \in IF threads[t].pc = "nb_index" THEN {threads[t].proof}
                   ELSE ThreadProofs,
        previous_hash \in {None},
        now \in Timestamps :
       Goto(t, [threads[t] EXCEPT
                  !.pc = "nb_transactions",
                  !.op = IF @ = "none" THEN "new_block" ELSE @,
                  !.tx = NoTx,
                  !.index = Len(chain) + 1,
                  !.timestamp = now,
                  !.proof = proof,
                  !.previous_hash = previous_hash])
  /\ UNCHANGED <<ledger, told, heap>>

\* new_block, line 38: the block refers to the pool's list object
NbTransactions(t) ==
  /\ threads[t].pc = "nb_transactions"
  /\ Goto(t, [threads[t] EXCEPT !.pc = "nb_hash", !.list = pool_list])
  /\ UNCHANGED <<ledger, told, heap>>

\* new_block, line 40: previous_hash or self.hash(self.chain[-1])
NbHash(t) ==
  /\ threads[t].pc = "nb_hash"
  /\ IF ~Truthy(threads[t].previous_hash) /\ chain = <<>>
     THEN /\ Goto(t, Idle)
          /\ result' = [op |-> threads[t].op, exc |-> "IndexError"]
     ELSE /\ Goto(t, [threads[t] EXCEPT
                        !.pc = "nb_reset",
                        !.previous_hash = IF Truthy(@) THEN @
                                          ELSE hash(Last(chain))])
          /\ UNCHANGED result
  /\ UNCHANGED <<chain, current_transactions, nodes, told, heap>>

\* new_block, line 43: self.current_transactions = []
NbReset(t) ==
  /\ threads[t].pc = "nb_reset"
  /\ lists' = Append(lists, <<>>)
  /\ pool_list' = Len(lists) + 1
  /\ current_transactions' = <<>>
  /\ Goto(t, [threads[t] EXCEPT !.pc = "nb_append"])
  /\ UNCHANGED <<chain, nodes, result, told, block_lists, submitted>>

\* new_block, lines 44-45: self.chain.append(block)
NbAppend(t) ==
  /\ threads[t].pc = "nb_append"
  /\ LET block == [index |-> threads[t].index,
                   timestamp |-> threads[t].timestamp,
                   transactions |-> lists[threads[t].list],
                   proof |-> threads[t].proof,
                   previous_hash |-> threads[t].previous_hash]
     IN  chain' = Append(chain, block)
  /\ block_lists' = Append(block_lists, threads[t].list)
  /\ result' = [op |-> threads[t].op, exc |-> "none"]
  /\ Goto(t, Idle)
  /\ UNCHANGED <<current_transactions, nodes, told, lists, pool_list,
                 submitted>>

\* resolve_conflicts, lines 138-141: max_length = len(self.chain)
RcRead(t) ==
  /\ threads[t].pc = "idle"
  /\ Goto(t, [threads[t] EXCEPT
                !.pc = "rc_swap", !.op = "resolve_conflicts",
                !.n = Len(chain)])
  /\ UNCHANGED <<ledger, told, heap>>

\* resolve_conflicts, lines 143-155: the peers are fetched, which touches
\* nothing of the object, and then self.chain = new_chain
RcSwap(t) ==
  /\ threads[t].pc = "rc_swap"
  /\ \E fetched \in [1..Cardinality(nodes) -> Responses] :
       LET l == resolve_loop(fetched, threads[t].n, NoChain)
           replaced == l.exc = "none" /\ l.new_chain.some
                       /\ l.new_chain.chain # <<>>
       IN  /\ chain' = IF replaced THEN l.new_chain.chain ELSE chain
           /\ block_lists' = IF replaced
                             THEN [i \in DOMAIN l.new_chain.chain |-> 0]
                             ELSE block_lists
           /\ adopted' = (adopted \/ replaced)
           /\ result' = [op |-> "resolve_conflicts", exc |-> l.exc,
                         ret |-> replaced,
                         grown |-> threads[t].n < Len(chain)]
  /\ Goto(t, Idle)
  /\ UNCHANGED <<current_transactions, nodes, promised, lists, pool_list,
                 submitted>>

\* mine, lines 174-175: last_block and its proof are read
MineRead(t) ==
  /\ threads[t].pc = "idle"
  /\ IF chain = <<>> \/ "proof" \notin DOMAIN Last(chain)
     THEN /\ Goto(t, Idle)
          /\ result' = [op |-> "mine",
                        exc |-> IF chain = <<>> THEN "IndexError"
                                ELSE "KeyError"]
     ELSE /\ Goto(t, [threads[t] EXCEPT
                        !.pc = "mine_search", !.op = "mine",
                        !.n = Last(chain).proof])
          /\ UNCHANGED result
  /\ UNCHANGED <<chain, current_transactions, nodes, told, heap>>

\* mine, lines 176-183: proof_of_work, then the reward transaction
MineSearch(t) ==
  /\ threads[t].pc = "mine_search"
  /\ LET p == proof_of_work(threads[t].n)
     IN  IF p.exc # "none"
         THEN /\ Goto(t, Idle)
              /\ result' = [op |-> "mine", exc |-> p.exc]
         ELSE /\ Goto(t, [threads[t] EXCEPT
                            !.pc = "tx_load",
                            !.proof = p.ret,
                            !.tx = [sender |-> "0",
                                    recipient |-> node_identifier,
                                    amount |-> 1]])
              /\ UNCHANGED result
  /\ UNCHANGED <<chain, current_transactions, nodes, told, heap>>

NextThreads ==
  \/ \E t \in DOMAIN threads : TxLoad(t) /\ UNCHANGED pair
  \/ \E t \in DOMAIN threads : TxAppend(t) /\ UNCHANGED pair
  \/ \E t \in DOMAIN threads : TxReturn(t) /\ UNCHANGED pair
  \/ \E t \in DOMAIN threads : NbIndex(t) /\ UNCHANGED pair
  \/ \E t \in DOMAIN threads : NbTransactions(t) /\ UNCHANGED pair
  \/ \E t \in DOMAIN threads : NbHash(t) /\ UNCHANGED pair
  \/ \E t \in DOMAIN threads : NbReset(t) /\ UNCHANGED pair
  \/ \E t \in DOMAIN threads : NbAppend(t) /\ UNCHANGED pair
  \/ \E t \in DOMAIN threads : RcRead(t) /\ UNCHANGED pair
  \/ \E t \in DOMAIN threads : RcSwap(t) /\ UNCHANGED pair
  \/ \E t \in DOMAIN threads : MineRead(t) /\ UNCHANGED pair
  \/ \E t \in DOMAIN threads : MineSearch(t) /\ UNCHANGED pair
  \/ /\ Cardinality(nodes) < MaxThreadPeers
     /\ RegisterNode
     /\ UNCHANGED <<told, threads, heap, pair>>

SpecThreads == Init /\ [][NextThreads]_vars

----------------------------------------------------------------------------
(* Two nodes that are each other's only peer.  Each builds its chain with   *)
(* new_block; once a node has called resolve_conflicts no block is added.   *)
(* GET /chain answers truthfully: full_chain of the other node's chain.     *)

PeerAddress == "http://n2:5000"

\* what requests.get gives for a node whose chain is ch
Served(ch) == Answer(full_chain(ch).chain, full_chain(ch).length)

InitPair ==
  /\ \E now \in Timestamps :
       chain = new_block(<<>>, <<>>, 100, PyInt(1), now).chain
  /\ \E now \in Timestamps :
       peer_chain = new_block(<<>>, <<>>, 100, PyInt(1), now).chain
  /\ current_transactions = <<>>
  /\ nodes = register_node({}, PeerAddress)
  /\ result = [op |-> "init", exc |-> "none"]
  /\ promised = <<>>
  /\ adopted = FALSE
  /\ threads = [t \in 1..MaxThreads |-> Idle]
  /\ lists = << <<>> >>
  /\ pool_list = 1
  /\ block_lists = <<0>>
  /\ submitted = {}
  /\ resolved = <<>>

\* the pools a node seals when it adds a block
PairPools == {<<>>} \cup { <<tx>> : tx \in Transactions }

\* this node adds a block (new_block without previous_hash)
PairNewBlock ==
  \E proof \in Proofs, pool \in PairPools, now \in Timestamps :
    /\ resolved = <<>>
    /\ Len(chain) < MaxChain
    /\ LET r == new_block(chain, pool, proof, None, now)
       IN /\ chain' = r.chain
          /\ result' = [op |-> "new_block", exc |-> r.exc]
    /\ UNCHANGED <<current_transactions, nodes, told, threads, heap, pair>>

\* the peer adds a block
PairPeerNewBlock ==
  \E proof \in Proofs, pool \in PairPools, now \in Timestamps :
    /\ resolved = <<>>
    /\ Len(peer_chain) < MaxChain
    /\ LET r == new_block(peer_chain, pool, proof, None, now)
       IN /\ peer_chain' = r.chain
          /\ result' = [op |-> "peer new_block", exc |-> r.exc]
    /\ UNCHANGED <<chain, current_transactions, nodes, told, threads, heap,
                   resolved>>

\* this node calls resolve_conflicts, once
PairResolve ==
  /\ \A i \in DOMAIN resolved : resolved[i].node # "local"
  /\ LET r == resolve_conflicts(chain, <<Served(peer_chain)>>)
     IN /\ chain' = r.chain
        /\ resolved' = Append(resolved,
                              [node |-> "local", exc |-> r.exc, ret |-> r.ret,
                               own |-> chain, other |-> peer_chain])
        /\ result' = [op |-> "resolve_conflicts", exc |-> r.exc]
  /\ UNCHANGED <<current_transactions, nodes, told, threads, heap, peer_chain>>

\* the peer calls resolve_conflicts, once
PairPeerResolve ==
  /\ \A i \in DOMAIN resolved : resolved[i].node # "peer"
  /\ LET r == resolve_conflicts(peer_chain, <<Served(chain)>>)
     IN /\ peer_chain' = r.chain
        /\ resolved' = Append(resolved,
                              [node |-> "peer", exc |-> r.exc, ret |-> r.ret,
                               own |-> peer_chain, other |-> chain])
        /\ result' = [op |-> "peer resolve_conflicts", exc |-> r.exc]
  /\ UNCHANGED <<chain, current_transactions, nodes, told, threads, heap>>

NextPair ==
  \/ PairNewBlock
  \/ PairPeerNewBlock
  \/ PairResolve
  \/ PairPeerResolve

SpecPair == InitPair /\ [][NextPair]_vars

----------------------------------------------------------------------------
(* Notions the properties below are stated with *)

\* a peer's answer that carries a chain and a length
Answered(r) == ~r.raises /\ r.status_code = 200 /\ r.json_ok

\* IsValid holds of c: valid_chain returns, and returns true
PassesIsValid(c) == valid_chain(c).exc = "none" /\ valid_chain(c).ret

\* every block of c has the five fields of a block
WellFormed(c) ==
  \A i \in DOMAIN c :
    DOMAIN c[i] = {"index", "timestamp", "transactions", "proof", "previous_hash"}

\* ValidProof holds of the pair: valid_proof returns, and returns true
ProofHolds(last_proof, proof) ==
  valid_proof(last_proof, proof).exc = "none" /\ valid_proof(last_proof, proof).ret

\* the positions of the answers that report more than Len(ch) blocks and
\* carry a chain that passes IsValid
Candidates(ch, fetched) ==
  { i \in DOMAIN fetched :
      /\ Answered(fetched[i])
      /\ fetched[i].length > Len(ch)
      /\ PassesIsValid(fetched[i].chain) }

\* the first position, in visiting order, of a candidate of greatest length
Best(ch, fetched) ==
  CHOOSE i \in Candidates(ch, fetched) :
    \A j \in Candidates(ch, fetched) :
      \/ fetched[j].length < fetched[i].length
      \/ (fetched[j].length = fetched[i].length /\ i <= j)

\* the transactions of the blocks of c, in chain order
RECURSIVE Sealed(_)
Sealed(c) ==
  IF c = <<>> THEN <<>>
  ELSE Sealed(SubSeq(c, 1, Len(c) - 1)) \o Last(c).transactions

\* how often x occurs in sequence q
Occurrences(x, q) == Cardinality({i \in DOMAIN q : q[i] = x})

\* the step is thread t finishing resolve_conflicts
Swaps(t) == threads[t].pc = "rc_swap" /\ threads'[t].pc = "idle"

----------------------------------------------------------------------------
(* Properties *)

\* C1: whenever resolve_conflicts replaces the local chain, the chain it
\* adopts passes IsValid and holds strictly more blocks than the chain it
\* replaces, whatever chains and lengths the peers report.
C1_AdoptsOnlyLongerValid ==
  [][ (result'.op = "resolve_conflicts" /\ result'.exc = "none" /\ result'.ret)
      => (PassesIsValid(chain') /\ Len(chain') > Len(chain)) ]_vars

\* a replacement has happened on the answer of a peer that reported a
\* length above the local one
C1_Replaced ==
  /\ result.op = "resolve_conflicts"
  /\ result.exc = "none"
  /\ result.ret
  /\ \E i \in DOMAIN result.arg : result.arg[i].chain = chain

\* C2: a failed fetch, a non-success status or a malformed body of one peer
\* never aborts resolve_conflicts: the call returns what it returns when
\* only the other peers are consulted, and leaves the chain they lead to.
C2_FailedPeerIsSkipped ==
  [][ result'.op = "resolve_conflicts"
      => LET kept == SelectSeq(result'.arg, Answered)
             rest == resolve_conflicts(chain, kept)
         IN  rest.exc = "none"
             => /\ result'.exc = "none"
                /\ result'.ret = rest.ret
                /\ chain' = rest.chain ]_vars

\* one peer failed to answer while another sent a longer chain that passes
\* IsValid
C2_FailedBesideCandidate ==
  /\ result.op = "resolve_conflicts"
  /\ \E i \in DOMAIN result.arg : ~Answered(result.arg[i])
  /\ \E i \in DOMAIN result.arg :
       /\ Answered(result.arg[i])
       /\ result.arg[i].length > MaxChain
       /\ PassesIsValid(result.arg[i].chain)

\* C3: resolve_conflicts returns true exactly when some answering peer
\* reports a length above the local one with a chain that passes IsValid;
\* the local chain then becomes the chain of the first peer, in visiting
\* order, of greatest reported length among those; otherwise it returns
\* false and the chain is unchanged.  Pool and peer set are unchanged.
C3_ResolveResult ==
  [][ result'.op = "resolve_conflicts"
      => LET fetched == result'.arg
             cands == Candidates(chain, fetched)
         IN  /\ result'.exc = "none"
             /\ result'.ret = (cands # {})
             /\ cands # {} => chain' = fetched[Best(chain, fetched)].chain
             /\ cands = {} => chain' = chain
             /\ current_transactions' = current_transactions
             /\ nodes' = nodes ]_vars

\* two peers sent chains that pass IsValid with different lengths above the
\* local one, and the call returned true
C3_TwoCandidates ==
  /\ result.op = "resolve_conflicts"
  /\ result.exc = "none"
  /\ result.ret
  /\ \E i, j \in DOMAIN result.arg :
       /\ Answered(result.arg[i]) /\ Answered(result.arg[j])
       /\ PassesIsValid(result.arg[i].chain)
       /\ PassesIsValid(result.arg[j].chain)
       /\ result.arg[i].length > result.arg[j].length
       /\ result.arg[j].length > MaxChain

\* C4: on a candidate of one or more well-formed blocks valid_chain returns
\* true exactly when every block from the second on carries the hash of its
\* predecessor and a proof for which ValidProof holds against the
\* predecessor's proof; it returns false when ValidProof fails for a pair
\* whose hash link is correct.
C4_IsValidIsPairwiseCheck ==
  (result.op = "valid_chain" /\ result.arg # <<>> /\ WellFormed(result.arg))
  => /\ result.exc = "none"
     /\ result.ret =
          (\A i \in 2..Len(result.arg) :
             /\ PyEq(result.arg[i].previous_hash, hash(result.arg[i - 1]))
             /\ ProofHolds(result.arg[i - 1].proof, result.arg[i].proof))

\* valid_chain was called on a chain of two blocks whose hash link is correct
C4_LinkedPairChecked ==
  /\ result.op = "valid_chain"
  /\ Len(result.arg) = 2
  /\ WellFormed(result.arg)
  /\ PyEq(result.arg[2].previous_hash, hash(result.arg[1]))

\* C5: every chain valid_chain accepts, and so the local chain in every
\* reachable state, has chain[i].index = i + 1 at every (0-based) position.
C5_IndicesCount ==
  /\ \A i \in DOMAIN chain : chain[i].index = i
  /\ (result.op = "valid_chain" /\ result.exc = "none" /\ result.ret)
     => \A i \in DOMAIN result.arg : result.arg[i].index = i

\* C6: the first block of the local chain is the genesis block: its
\* previous_hash is the sentinel 1, also after a chain was adopted.
C6_GenesisFirst ==
  chain # <<>> => PyEq(chain[1].previous_hash, PyInt(1))

\* C7: the local chain always holds at least one block, so last_block
\* never fails.
C7_ChainNeverEmpty ==
  /\ Len(chain) >= 1
  /\ last_block(chain).exc = "none"

\* resolve_conflicts has run, and the first peer it visited sent an empty
\* chain with a reported length above the local one
C7_EmptyChainOffered ==
  /\ result.op = "resolve_conflicts"
  /\ Answered(result.arg[1])
  /\ result.arg[1].chain = <<>>
  /\ result.arg[1].length > Len(chain)

\* C8: on a candidate with a block that lacks a field valid_chain returns
\* false instead of raising, and it never changes chain, pool or peer set.
C8_MalformedIsRejected ==
  [][ result'.op = "valid_chain"
      => /\ (result'.arg # <<>> /\ ~WellFormed(result'.arg))
            => (result'.exc = "none" /\ result'.ret = FALSE)
         /\ chain' = chain
         /\ current_transactions' = current_transactions
         /\ nodes' = nodes ]_vars

\* valid_chain was called on a candidate with a block lacking a field
C8_MalformedChecked ==
  /\ result.op = "valid_chain"
  /\ result.arg # <<>>
  /\ ~WellFormed(result.arg)

\* C9: proof_of_work returns the smallest p >= 0 for which ValidProof holds
\* against last_proof.
C9_FindsSmallestProof ==
  result.op = "proof_of_work"
  => /\ result.exc = "none"
     /\ ProofHolds(result.arg, result.ret)
     /\ \A q \in 0..(result.ret - 1) : ~ProofHolds(result.arg, q)

\* proof_of_work was called
C9_Searched == result.op = "proof_of_work"

C11_SealedWhereTold ==
  [][ result'.op = "new_block"
      => \A i \in DOMAIN promised : promised[i] = result'.ret.index ]_vars

\* a block sealed a pending transaction after resolve_conflicts had replaced
\* the chain
C11_SealedAfterAdoption ==
  /\ result.op = "new_block"
  /\ adopted
  /\ Last(chain).transactions # <<>>

\* C12: after new_block is called without a previous_hash the last block
\* carries the hash of the block before it and an index one above that
\* block's index, also when the chain was adopted from a peer.
C12_AppendLinkage ==
  [][ (result'.op = "new_block" /\ result'.exc = "none" /\ ~Truthy(result'.arg))
      => LET n == Len(chain')
         IN  /\ PyEq(chain'[n].previous_hash, hash(chain'[n - 1]))
             /\ chain'[n].index = chain'[n - 1].index + 1 ]_vars

\* new_block was called without a previous_hash on a chain adopted from a
\* peer
C12_AppendedToAdopted ==
  /\ result.op = "new_block"
  /\ ~Truthy(result.arg)
  /\ Len(chain) = 2
  /\ chain[1] = PeerForeign

C14_InvalidInputRejected ==
  [][ LET body == result'.arg
          rejected == /\ result'.status \in 400..499
                      /\ chain' = chain
                      /\ current_transactions' = current_transactions
                      /\ nodes' = nodes
      IN  /\ (/\ result'.op = "POST /transactions/new"
               /\ body.t = "dict"
               /\ DOMAIN body.v # {"sender", "recipient", "amount"})
              => rejected
          /\ (/\ result'.op = "POST /nodes/register"
               /\ body.t = "dict"
               /\ ("nodes" \notin DOMAIN body.v \/ body.v.nodes.t # "list"))
              => rejected ]_vars

\* /nodes/register was posted a body whose 'nodes' is a string
C14_StringPosted ==
  /\ result.op = "POST /nodes/register"
  /\ result.arg.t = "dict"
  /\ "nodes" \in DOMAIN result.arg.v
  /\ result.arg.v.nodes.t = "str"

C16_SwapOnlyForLonger ==
  [][ \A t \in DOMAIN threads :
        (Swaps(t) /\ chain' # chain) => Len(chain') > Len(chain) ]_vars

\* resolve_conflicts replaced a chain to which a block had been appended
\* after the call had read the chain's length
C16_SwappedAfterAppend ==
  /\ result.op = "resolve_conflicts"
  /\ result.ret
  /\ result.grown

\* C17: under any interleaving of new_transaction and new_block calls, as
\* long as resolve_conflicts has not replaced the chain, no two blocks of
\* the chain have the same index, no submitted transaction is in more than
\* one block, and once every call has returned each submitted transaction
\* is in a block or in the pool.
C17_NoDropNoDoubleNoClash ==
  ~adopted
  => /\ \A i, j \in DOMAIN chain : i # j => chain[i].index # chain[j].index
     /\ \A tx \in submitted : Occurrences(tx, Sealed(chain)) <= 1
     /\ (\A t \in DOMAIN threads : threads[t].pc = "idle")
        => \A tx \in submitted :
             Occurrences(tx, Sealed(chain) \o current_transactions) >= 1

\* two new_block calls that ran side by side have both appended their
\* block, sealed from the same list object, which holds a transaction
C17_TwoBlocksFromOnePool ==
  /\ ~adopted
  /\ Len(chain) = 3
  /\ block_lists[2] = block_lists[3]
  /\ chain[3].transactions # <<>>

\* C18: no step of new_transaction, new_block or register_node, under any
\* interleaving, removes or changes a block that is in the chain, its
\* transactions included; only the replacement by resolve_conflicts does.
C18_AppendedBlocksUnchanged ==
  [][ (\A t \in DOMAIN threads : ~Swaps(t))
      => \A i \in DOMAIN chain :
           i \in DOMAIN chain' /\ chain'[i] = chain[i] ]_vars

\* a new_transaction call is about to append to a list object that a block
\* of the chain refers to
C18_HoldsListOfBlock ==
  \E t \in DOMAIN threads :
    /\ threads[t].pc = "tx_append"
    /\ \E i \in DOMAIN chain : block_lists[i] = threads[t].list

\* C19: with requests served one at a time on a node whose chain was never
\* replaced, GET /mine answers 200 and lengthens the chain by exactly one
\* block, whose transactions are the pending ones followed by the reward
\* (sender "0", recipient the node's identifier, amount 1); the chain
\* passes IsValid after every request, and so does the chain that
\* GET /chain serves.
C19_MiningBuildsValidChain ==
  [][ ~adopted'
      => /\ result'.op = "GET /mine"
            => /\ result'.status = 200
               /\ chain' = Append(chain, Last(chain'))
               /\ Last(chain').transactions
                    = Append(current_transactions,
                             [sender |-> "0", recipient |-> node_identifier,
                              amount |-> 1])
         /\ result'.op = "GET /chain" => PassesIsValid(result'.ret)
         /\ PassesIsValid(chain') ]_vars

\* GET /mine was served on a node with pending transactions whose chain was
\* never replaced
C19_MineRequested ==
  /\ result.op = "GET /mine"
  /\ ~adopted
  /\ current_transactions # <<>>

====
